---- MODULE Spec2Model ----
(***************************************************************************)
(* Indian Mutual Fund Analyzer (app.py): the "Search Funds" analysis of a  *)
(* fund's NAV history and the "SIP Calculator" formulas.                   *)
(*                                                                         *)
(* Numbers.  NAVs are integers (a NAV in its smallest unit); a quotient    *)
(* of the code is the exact fraction <<num, den>>, with den = 0 for the    *)
(* non-finite results numpy's division gives (inf, -inf, nan).  A power    *)
(* with a fractional exponent is kept as the term <<base num, base den,    *)
(* exponent's years num, years den>>.  Floating-point rounding and the     *)
(* f-string formatting of displayed figures are not represented.           *)
(***************************************************************************)
EXTENDS Integers, Sequences, FiniteSets, TLC

VARIABLES
    pc,               \* position of the script run
    historical_data,  \* historical_data['data'] as delivered; << >> when None, absent or empty
    df,               \* the DataFrame rows [date, nav] after line 141
    fund_age_days,    \* (current_date - inception_date).days, 0 before line 146
    total_return,     \* line 188, << >> before
    cagr,             \* line 191, << >> before
    table_computed,   \* TRUE once the branch of line 207 was entered
    time_periods,     \* the catalog assigned at line 213, << >> before
    returns_data,     \* rows appended at lines 267-277
    drawdown,         \* df['drawdown'], line 295
    max_drawdown,     \* line 296, << >> before
    shown,            \* labels of the st.metric / st.dataframe figures displayed
    errors,           \* st.error messages displayed
    raised,           \* the exception the run raised, "none" if none
    \* SIP Calculator, tab 1
    monthly_investment,  \* number_input of line 333
    annual_return,       \* slider of line 342, the fraction <<num, den>> of integers
    investment_years,    \* slider of line 351
    future_value,        \* line 367 / 369
    total_investment,    \* line 371
    wealth_gained,       \* line 372
    investment_values,   \* line 396
    future_values,       \* line 397
    \* SIP Calculator, tab 2
    target_amount,       \* number_input of line 439
    target_years,        \* slider of line 448
    expected_return,     \* slider of line 457, the fraction <<num, den>> of integers
    required_sip,        \* line 473 / 475
    total_investment_needed,  \* line 477
    wealth_to_be_gained,      \* line 478
    scenarios_data,           \* rows of lines 499-503
    \* SIP Goal Planner
    selected_goals,      \* multiselect of line 525, in the order of selection
    custom,              \* per goal, the widgets' values of lines 545-569
    goal_index,          \* number of goals the loop of line 538 has processed
    total_monthly_sip,   \* lines 535, 587
    goal_details,        \* rows appended at lines 589-595
    total_target,        \* line 610, 0 before
    timeline_data,       \* rows of lines 631-637
    \* acquisition of the history, lines 95-135
    years_back,          \* the loop variable of line 102, 0 before the loop
    lookback_calls,      \* the calls of line 105 so far: window and outcome
    discarded            \* the exceptions caught by the excepts of lines 113 and 128

fundVars == <<pc, historical_data, df, fund_age_days, total_return, cagr,
              table_computed, time_periods, returns_data, drawdown, max_drawdown, shown,
              errors, raised>>

sipInputs == <<monthly_investment, annual_return, investment_years,
               target_amount, target_years, expected_return>>

tab1Vars == <<future_value, total_investment, wealth_gained, investment_values, future_values>>

tab2Vars == <<required_sip, total_investment_needed, wealth_to_be_gained, scenarios_data>>

goalVars == <<selected_goals, custom, goal_index, total_monthly_sip, goal_details,
              total_target, timeline_data>>

fetchVars == <<years_back, lookback_calls, discarded>>

vars == <<fundVars, sipInputs, tab1Vars, tab2Vars, goalVars, fetchVars>>

----------------------------------------------------------------------------
(* Bounds of the explored inputs *)

MaxShortLen == 3     \* short provider responses have 0..MaxShortLen observations
MaxDate == 3         \* number of distinct calendar dates in short responses
MaxNav == 2          \* short responses draw NAVs from -MaxNegNav..MaxNav
MaxCatalogIdx == 5   \* long responses straddle the first MaxCatalogIdx catalog offsets
MaxSlack == 1        \* ... with lengths offset-1 .. offset+1+MaxSlack

MaxNegNav == 1       \* ... zero and negative NAVs included

MaxAmountSteps == 2  \* monthly amounts 500, 1000, .. in the widget's steps of 500
MaxReturnSteps == 2  \* annual returns 1.0, 1.5, .. in the slider's steps of 0.5
MaxYears == 2        \* periods of 1..MaxYears years
MaxTargetSteps == 1  \* targets 100000, 200000, .. in the widget's steps of 100000
MaxSelected == 2     \* goal selections of 0..MaxSelected goals
MaxGoalYears == 5    \* ... among the goals whose predefined period is at most MaxGoalYears
MaxCustomSteps == 1  \* customized targets, periods and returns: MaxCustomSteps values each

----------------------------------------------------------------------------
(* Arithmetic of the code's float expressions *)

NotComputed == << >>

\* the 'N/A' of line 276
NotApplicable == << >>

Sign(n) == IF n > 0 THEN 1 ELSE IF n < 0 THEN -1 ELSE 0

Max(a, b) == IF a >= b THEN a ELSE b

\* a / b on numpy numbers: a zero divisor gives inf, -inf or nan, no exception
Div(a, b) ==
    IF b > 0 THEN <<a, b>>
    ELSE IF b < 0 THEN <<-a, -b>>
    ELSE <<Sign(a), 0>>

\* (x / y) * k for an integer k
Scale(q, k) == IF q[2] = 0 THEN <<Sign(q[1] * k), 0>> ELSE <<q[1] * k, q[2]>>

IsNaN(q) == q[1] = 0 /\ q[2] = 0

\* q1 < q2 on floats (false when either is nan)
RatLess(q1, q2) ==
    /\ ~IsNaN(q1) /\ ~IsNaN(q2)
    /\ IF q1[2] = 0 /\ q2[2] = 0 THEN q1[1] < q2[1]
       ELSE q1[1] * q2[2] < q2[1] * q1[2]

\* q1 == q2 on floats (false when either is nan)
RatEq(q1, q2) ==
    /\ ~IsNaN(q1) /\ ~IsNaN(q2)
    /\ IF q1[2] = 0 \/ q2[2] = 0 THEN q1 = q2
       ELSE q1[1] * q2[2] = q2[1] * q1[2]

\* ((a / b) ** (1 / years) - 1) * 100 with years = yn / yd, kept as a term
PowTerm(a, b, yn, yd) == <<a, b, yn, yd>>

----------------------------------------------------------------------------
(* Dates: the provider's 'dd-mm-YYYY' strings are triples <<dd, mm, yyyy>>; *)
(* pd.to_datetime turns them into a day number of the proleptic Gregorian  *)
(* calendar.                                                               *)

DaysFromCivil(d, m, y) ==
    LET yy  == IF m <= 2 THEN y - 1 ELSE y
        era == yy \div 400
        yoe == yy - era * 400
        mp  == IF m > 2 THEN m - 3 ELSE m + 9
        doy == (153 * mp + 2) \div 5 + d - 1
        doe == yoe * 365 + yoe \div 4 - yoe \div 100 + doy
    IN  era * 146097 + doe - 719468

CivilFromDays(z0) ==
    LET z   == z0 + 719468
        era == z \div 146097
        doe == z - era * 146097
        yoe == (doe - doe \div 1460 + doe \div 36524 - doe \div 146096) \div 365
        doy == doe - (365 * yoe + yoe \div 4 - yoe \div 100)
        mp  == (5 * doy + 2) \div 153
        d   == doy - (153 * mp + 2) \div 5 + 1
        m   == IF mp < 10 THEN mp + 3 ELSE mp - 9
        y   == yoe + era * 400 + (IF m <= 2 THEN 1 ELSE 0)
    IN  <<d, m, y>>

\* pd.to_datetime(df['date'], format='%d-%m-%Y')
to_datetime(s) == DaysFromCivil(s[1], s[2], s[3])

\* pd.DataFrame(historical_data['data']) with both columns converted
DataFrame(data) ==
    [i \in 1..Len(data) |-> [date |-> to_datetime(data[i].date), nav |-> data[i].nav]]

IsSortedByDate(s) == \A i \in 1..(Len(s) - 1) : s[i].date <= s[i + 1].date

StrictlyIncreasingByDate(s) == \A i \in 1..(Len(s) - 1) : s[i].date < s[i + 1].date

\* the rows left in the order of delivery
sort_values_unsorted(frame) == {frame}

\* df.sort_values('date'): the rows in ascending date order.  The default
\* sort is not stable, so rows sharing a date come out in any order.
sort_values(frame) ==
    LET s == SortSeq(frame, LAMBDA a, b : a.date < b.date)
    IN  IF StrictlyIncreasingByDate(s) THEN {s}
        ELSE {t \in {[i \in 1..Len(frame) |-> frame[p[i]]] :
                        p \in Permutations(1..Len(frame))} : IsSortedByDate(t)}

\* series.iloc[k] for a non-empty position k, negative k counting from the end
ILocValid(s, k) == IF k < 0 THEN Len(s) + k >= 0 ELSE k < Len(s)
ILoc(s, k) == IF k < 0 THEN s[Len(s) + k + 1] ELSE s[k + 1]

----------------------------------------------------------------------------
(* The period catalog of lines 213-256 *)

TimePeriods == <<
    [days |-> 30, name |-> "1 Month"], [days |-> 90, name |-> "3 Months"],
    [days |-> 180, name |-> "6 Months"], [days |-> 365, name |-> "1 Year"],
    [days |-> 730, name |-> "2 Years"], [days |-> 1095, name |-> "3 Years"],
    [days |-> 1825, name |-> "5 Years"], [days |-> 2190, name |-> "6 Years"],
    [days |-> 2555, name |-> "7 Years"], [days |-> 2920, name |-> "8 Years"],
    [days |-> 3285, name |-> "9 Years"], [days |-> 3650, name |-> "10 Years"],
    [days |-> 4015, name |-> "11 Years"], [days |-> 4380, name |-> "12 Years"],
    [days |-> 4745, name |-> "13 Years"], [days |-> 5110, name |-> "14 Years"],
    [days |-> 5475, name |-> "15 Years"], [days |-> 5840, name |-> "16 Years"],
    [days |-> 6205, name |-> "17 Years"], [days |-> 6570, name |-> "18 Years"],
    [days |-> 6935, name |-> "19 Years"], [days |-> 7300, name |-> "20 Years"],
    [days |-> 7665, name |-> "21 Years"], [days |-> 8030, name |-> "22 Years"],
    [days |-> 8395, name |-> "23 Years"], [days |-> 8760, name |-> "24 Years"],
    [days |-> 9125, name |-> "25 Years"], [days |-> 9490, name |-> "26 Years"],
    [days |-> 9855, name |-> "27 Years"], [days |-> 10220, name |-> "28 Years"],
    [days |-> 10585, name |-> "29 Years"], [days |-> 10950, name |-> "30 Years"],
    [days |-> 11315, name |-> "31 Years"], [days |-> 11680, name |-> "32 Years"],
    [days |-> 12045, name |-> "33 Years"], [days |-> 12410, name |-> "34 Years"],
    [days |-> 12775, name |-> "35 Years"], [days |-> 13140, name |-> "36 Years"],
    [days |-> 13505, name |-> "37 Years"], [days |-> 13870, name |-> "38 Years"],
    [days |-> 14235, name |-> "39 Years"], [days |-> 14600, name |-> "40 Years"] >>

----------------------------------------------------------------------------
(* Provider responses *)

ShortBaseDay == DaysFromCivil(30, 12, 2023)
LongBaseDay == DaysFromCivil(1, 1, 2019)

ShortDates == {CivilFromDays(ShortBaseDay + k) : k \in 0..(MaxDate - 1)}

Obs == [date : ShortDates, nav : (-MaxNegNav)..MaxNav]

ShortResponses == UNION {[1..n -> Obs] : n \in 0..MaxShortLen}

Patterns == {"rising", "saw", "falling", "dip"}

PatternNav(pattern, k) ==
    CASE pattern = "rising" -> 10 + k
      [] pattern = "saw" -> 10 + (k % 7)
      [] pattern = "falling" -> 2000 - k
      [] pattern = "dip" -> (k % 5) - 1

\* len observations on consecutive days, delivered oldest first or newest first
LongResponse(len, pattern, newestFirst) ==
    [i \in 1..len |->
        LET k == IF newestFirst THEN len - i ELSE i - 1
        IN  [date |-> CivilFromDays(LongBaseDay + k), nav |-> PatternNav(pattern, k)]]

LongLens == {TimePeriods[i].days + k : i \in 1..MaxCatalogIdx, k \in (-1)..(1 + MaxSlack)}

LongResponses ==
    {LongResponse(len, pattern, nf) : len \in LongLens, pattern \in Patterns, nf \in BOOLEAN}

----------------------------------------------------------------------------
(* The computations of the Search Funds analysis *)

Navs(frame) == [i \in 1..Len(frame) |-> frame[i].nav]

\* line 188
TotalReturn(current_nav, inception_nav) ==
    Scale(Div(current_nav - inception_nav, inception_nav), 100)

PeriodAvailable_inclusive(len, days) == len >= days

\* line 259
PeriodAvailable(len, days) == len > days

IsAnnualized_strict(days) == days > 365

\* line 264
IsAnnualized(days) == days >= 365

\* lines 260-277, the row of one catalog period
PeriodRow(frame, period) ==
    LET current_nav == ILoc(Navs(frame), -1)
        old_nav == ILoc(Navs(frame), -period.days - 1)
    IN  [Period |-> period.name,
         AbsoluteReturn |-> Scale(Div(current_nav - old_nav, old_nav), 100),
         AnnualizedReturn |->
             IF IsAnnualized(period.days)
             THEN PowTerm(current_nav, old_nav, 4 * period.days, 1461)
             ELSE NotApplicable]

\* lines 258-277, the loop over the catalog
RECURSIVE PeriodRows(_, _)
PeriodRows(frame, i) ==
    IF i > Len(TimePeriods) THEN << >>
    ELSE IF PeriodAvailable(Len(frame), TimePeriods[i].days)
         THEN <<PeriodRow(frame, TimePeriods[i])>> \o PeriodRows(frame, i + 1)
         ELSE PeriodRows(frame, i + 1)

\* the loop raises IndexError when an available period has no row at -days-1
PeriodsRaise(frame) ==
    \E i \in 1..Len(TimePeriods) :
        /\ PeriodAvailable(Len(frame), TimePeriods[i].days)
        /\ ~ILocValid(frame, -TimePeriods[i].days - 1)

\* df['nav'].expanding().max(), line 294: the running maxima of navs[lo..hi]
\* given the maximum before lo (computed by halves to keep the recursion shallow)
RECURSIVE ExpandingMax(_, _, _, _)
ExpandingMax(navs, lo, hi, before) ==
    IF lo > hi THEN << >>
    ELSE IF lo = hi THEN <<IF before = << >> THEN navs[lo] ELSE Max(before[1], navs[lo])>>
    ELSE LET mid == (lo + hi) \div 2
             left == ExpandingMax(navs, lo, mid, before)
         IN  left \o ExpandingMax(navs, mid + 1, hi, <<left[Len(left)]>>)

DrawdownAt_flipped(nav, rolling_max) == Div(rolling_max - nav, rolling_max)

\* line 295
DrawdownAt(nav, rolling_max) == Div(nav - rolling_max, rolling_max)

DrawdownSeries(frame) ==
    LET navs == Navs(frame)
        rolling_max == ExpandingMax(navs, 1, Len(navs), << >>)
    IN  [i \in 1..Len(navs) |-> DrawdownAt(navs[i], rolling_max[i])]

\* the lesser of two floats for series.min(): a nan operand is skipped
MinSkipNaN(a, b) ==
    IF IsNaN(a) THEN b ELSE IF IsNaN(b) THEN a ELSE IF RatLess(b, a) THEN b ELSE a

\* series.min(): the least entry of s[lo..hi], nan entries skipped, nan when
\* none is left
RECURSIVE SeriesMin(_, _, _)
SeriesMin(s, lo, hi) ==
    IF lo > hi THEN <<0, 0>>
    ELSE IF lo = hi THEN s[lo]
    ELSE LET mid == (lo + hi) \div 2
         IN  MinSkipNaN(SeriesMin(s, lo, mid), SeriesMin(s, mid + 1, hi))

\* line 296
MaxDrawdown(dd) == Scale(SeriesMin(dd, 1, Len(dd)), 100)

----------------------------------------------------------------------------
(* Exact arithmetic for the SIP formulas.  (1 + r) ** n does not fit a      *)
(* machine integer, so a natural number is a sequence of base-BigBase       *)
(* digits, least significant first and without leading zeros (<< >> is 0),  *)
(* and a value of the code is a fraction <<numerator, denominator>> of such *)
(* numbers.  The SIP values are never negative.                             *)

BigBase == 10000

RECURSIVE BigFromNat(_)
BigFromNat(n) == IF n = 0 THEN << >> ELSE <<n % BigBase>> \o BigFromNat(n \div BigBase)

Digit(a, i) == IF i <= Len(a) THEN a[i] ELSE 0

Min(a, b) == IF a <= b THEN a ELSE b

\* the digits of s[lo..hi] once the carries are passed on, with the carry in
\* and the carry out; an entry of s is any integer (computed by quarters to
\* keep the recursion shallow)
RECURSIVE BigCarry(_, _, _, _)
BigCarry(s, lo, hi, carry) ==
    IF lo > hi THEN [digits |-> << >>, carry |-> carry]
    ELSE IF lo = hi
    THEN [digits |-> <<(s[lo] + carry) % BigBase>>, carry |-> (s[lo] + carry) \div BigBase]
    ELSE LET q == (hi - lo + 4) \div 4
             c1 == BigCarry(s, lo, lo + q - 1, carry)
             c2 == BigCarry(s, lo + q, Min(hi, lo + 2 * q - 1), c1.carry)
             c3 == BigCarry(s, lo + 2 * q, Min(hi, lo + 3 * q - 1), c2.carry)
             c4 == BigCarry(s, lo + 3 * q, hi, c3.carry)
         IN  [digits |-> c1.digits \o (c2.digits \o (c3.digits \o c4.digits)),
              carry |-> c4.carry]

\* without leading zeros
BigTrim(a) ==
    LET nz == {i \in DOMAIN a : a[i] # 0}
    IN  IF nz = {} THEN << >>
        ELSE SubSeq(a, 1, CHOOSE i \in nz : \A j \in nz : j <= i)

\* the number whose i-th place holds s[i], an entry of s being any integer
\* and the number not negative
BigOfPlaces(s) ==
    LET c == BigCarry(s, 1, Len(s), 0)
    IN  BigTrim(c.digits \o BigFromNat(c.carry))

BigAdd(a, b) ==
    IF a = << >> THEN b
    ELSE IF b = << >> THEN a
    ELSE BigOfPlaces([i \in 1..Max(Len(a), Len(b)) |-> Digit(a, i) + Digit(b, i)])

\* a - b for a >= b
BigSub(a, b) ==
    IF b = << >> \/ a = << >> THEN a
    ELSE BigOfPlaces([i \in 1..Max(Len(a), Len(b)) |-> Digit(a, i) - Digit(b, i)])

\* a * k for a digit k
BigMulDigit(a, k) ==
    IF a = << >> \/ k = 0 THEN << >>
    ELSE BigOfPlaces([i \in 1..Len(a) |-> a[i] * k])

\* a * BigBase ** n
BigShift(a, n) == IF a = << >> THEN a ELSE [i \in 1..n |-> 0] \o a

\* the sum of the numbers rows[lo..hi]
RECURSIVE BigSum(_, _, _)
BigSum(rows, lo, hi) ==
    IF lo > hi THEN << >>
    ELSE IF lo = hi THEN rows[lo]
    ELSE LET mid == (lo + hi) \div 2
             low == BigSum(rows, lo, mid)
             high == BigSum(rows, mid + 1, hi)
         IN  IF high = << >> THEN low ELSE BigAdd(low, high)

BigNonZero(a) == a # << >>

\* the long multiplication: a times each digit of b at its place, added up
BigMul(a, b) ==
    IF a = << >> \/ b = << >> THEN << >>
    ELSE LET rows == SelectSeq([j \in 1..Len(b) |-> BigShift(BigMulDigit(a, b[j]), j - 1)],
                               BigNonZero)
         IN  BigSum(rows, 1, Len(rows))

\* a < b: fewer digits, or the same number and a smaller digit at the most
\* significant place where they differ
BigLess(a, b) ==
    \/ Len(a) < Len(b)
    \/ /\ Len(a) = Len(b)
       /\ \E i \in DOMAIN a :
             /\ a[i] < b[i]
             /\ \A j \in (i + 1)..Len(a) : a[j] = b[j]

BigZero == << >>
BigOne == <<1>>

\* fractions
QInt(n) == <<BigFromNat(n), BigOne>>
QIsZero(q) == q[1] = BigZero
QAdd(p, q) == <<BigAdd(BigMul(p[1], q[2]), BigMul(q[1], p[2])), BigMul(p[2], q[2])>>
\* p - q for p >= q
QSub(p, q) == <<BigSub(BigMul(p[1], q[2]), BigMul(q[1], p[2])), BigMul(p[2], q[2])>>
QMul(p, q) == <<BigMul(p[1], q[1]), BigMul(p[2], q[2])>>
\* p / q for q # 0
QDiv(p, q) == <<BigMul(p[1], q[2]), BigMul(p[2], q[1])>>
QEq(p, q) == BigMul(p[1], q[2]) = BigMul(q[1], p[2])
QLess(p, q) == BigLess(BigMul(p[1], q[2]), BigMul(q[1], p[2]))

\* q ** n for a natural n (by squaring)
RECURSIVE QPow(_, _)
QPow(q, n) ==
    IF n = 0 THEN QInt(1)
    ELSE LET h == QPow(q, n \div 2)
             sq == QMul(h, h)
         IN  IF QIsZero(h) THEN h
             ELSE IF n % 2 = 0 \/ QIsZero(sq) THEN sq
             ELSE QMul(sq, q)

----------------------------------------------------------------------------
(* The SIP Calculator, lines 319-506 *)

\* the widgets' default values
SipDefaults ==
    /\ monthly_investment = 5000
    /\ annual_return = <<24, 2>>
    /\ investment_years = 10
    /\ target_amount = 1000000
    /\ target_years = 10
    /\ expected_return = <<24, 2>>

SipNotComputed ==
    /\ future_value = NotComputed
    /\ total_investment = 0
    /\ wealth_gained = NotComputed
    /\ investment_values = << >>
    /\ future_values = << >>
    /\ required_sip = NotComputed
    /\ total_investment_needed = NotComputed
    /\ wealth_to_be_gained = NotComputed
    /\ scenarios_data = << >>

\* a slider value num / den as a fraction
QFrac(f) == <<BigFromNat(f[1]), BigFromNat(f[2])>>

\* lines 362, 468, 493, 579: rate / (12 * 100)
MonthlyRate(rate) == QDiv(rate, QInt(12 * 100))

\* ((1 + r) ** n - 1) / r, the factor of lines 367, 392, 473, 495
Growth(r, n) == QDiv(QSub(QPow(QAdd(QInt(1), r), n), QInt(1)), r)

FutureValue_ordinary(amount, r, n) ==
    IF ~QIsZero(r) THEN QMul(amount, Growth(r, n)) ELSE QMul(amount, QInt(n))

\* lines 366-369
FutureValue(amount, r, n) ==
    IF ~QIsZero(r)
    THEN QMul(QMul(amount, Growth(r, n)), QAdd(QInt(1), r))
    ELSE QMul(amount, QInt(n))

YearValue_ordinary(amount, r, months) ==
    IF ~QIsZero(r) THEN QMul(amount, Growth(r, months)) ELSE QMul(amount, QInt(months))

\* lines 389-394, one year of the year-wise breakdown
YearValue(amount, r, months) ==
    IF ~QIsZero(r)
    THEN QMul(QMul(amount, Growth(r, months)), QAdd(QInt(1), r))
    ELSE QMul(amount, QInt(months))

RequiredSip_ordinary(target, r, n) ==
    IF ~QIsZero(r) THEN QDiv(target, Growth(r, n)) ELSE QDiv(target, QInt(n))

\* lines 472-475 (also 494-497), for n > 0
RequiredSip(target, r, n) ==
    IF ~QIsZero(r)
    THEN QDiv(target, QMul(Growth(r, n), QAdd(QInt(1), r)))
    ELSE QDiv(target, QInt(n))

\* line 490
return_rates == <<8, 10, 12, 15, 18>>

HalfPercent(h) == <<h, 2>>

Amounts == {500 * k : k \in 1..MaxAmountSteps}
Returns == {HalfPercent(0)} \cup {HalfPercent(2 + k) : k \in 0..(MaxReturnSteps - 1)}
Years == 1..MaxYears
Targets == {100000 * k : k \in 1..MaxTargetSteps}

\* the widgets' values: the combinations of the sets above and the defaults
Tab1Inputs == (Amounts \X Returns \X Years) \cup {<<5000, HalfPercent(24), 10>>}
Tab2Inputs == (Targets \X Years \X Returns) \cup {<<1000000, 10, HalfPercent(24)>>}

\* lines 515-523
goals ==
    "Child's Education" :> [amount |-> 2000000, years |-> 15, return |-> 12] @@
    "Child's Marriage" :> [amount |-> 1500000, years |-> 20, return |-> 12] @@
    "Retirement Planning" :> [amount |-> 10000000, years |-> 25, return |-> 12] @@
    "Dream Home" :> [amount |-> 5000000, years |-> 10, return |-> 12] @@
    "Dream Car" :> [amount |-> 1000000, years |-> 5, return |-> 12] @@
    "Emergency Fund" :> [amount |-> 500000, years |-> 3, return |-> 8] @@
    "Vacation Fund" :> [amount |-> 300000, years |-> 2, return |-> 10]

\* list(goals.keys()), line 527
goal_keys ==
    <<"Child's Education", "Child's Marriage", "Retirement Planning", "Dream Home",
      "Dream Car", "Emergency Fund", "Vacation Fund">>

\* the default of line 528
DefaultSelection == <<"Child's Education", "Retirement Planning">>

\* the widgets' values for a goal nobody customized: value=... of lines 549,
\* 558, 566
WidgetDefaults(g) ==
    [amount |-> goals[g].amount, years |-> goals[g].years,
     return |-> HalfPercent(2 * goals[g].return)]

AllWidgetDefaults == [g \in DOMAIN goals |-> WidgetDefaults(g)]

\* the Goal Planner before its run
GoalNotRun ==
    /\ selected_goals = DefaultSelection
    /\ custom = AllWidgetDefaults
    /\ goal_index = 0
    /\ total_monthly_sip = QInt(0)
    /\ goal_details = << >>
    /\ total_target = 0
    /\ timeline_data = << >>

\* the acquisition of lines 95-135 is over
AcquisitionOver ==
    /\ years_back = 0
    /\ lookback_calls = << >>
    /\ discarded = << >>

SipInit ==
    /\ pc = "tab1"
    /\ \E in1 \in Tab1Inputs :
          /\ monthly_investment = in1[1]
          /\ annual_return = in1[2]
          /\ investment_years = in1[3]
    /\ \E in2 \in Tab2Inputs :
          /\ target_amount = in2[1]
          /\ target_years = in2[2]
          /\ expected_return = in2[3]
    /\ SipNotComputed
    /\ GoalNotRun
    /\ AcquisitionOver
    /\ historical_data = << >>
    /\ df = << >>
    /\ fund_age_days = 0
    /\ total_return = NotComputed
    /\ cagr = NotComputed
    /\ table_computed = FALSE
    /\ time_periods = << >>
    /\ returns_data = << >>
    /\ drawdown = << >>
    /\ max_drawdown = NotComputed
    /\ shown = {}
    /\ errors = << >>
    /\ raised = "none"

\* an exception outside any try: the run stops
Abort(e) ==
    /\ raised' = e
    /\ pc' = "done"

\* tab 1, lines 361-397; line 378 divides by total_investment
SipFutureValue ==
    /\ pc = "tab1"
    /\ LET monthly_rate == MonthlyRate(QFrac(annual_return))
           total_months == investment_years * 12
       IN  /\ future_value' = FutureValue(QInt(monthly_investment), monthly_rate, total_months)
           /\ total_investment' = monthly_investment * total_months
           /\ wealth_gained' = QSub(future_value', QInt(total_investment'))
           /\ IF total_investment' = 0
              THEN /\ Abort("ZeroDivisionError")
                   /\ UNCHANGED <<investment_values, future_values, shown>>
              ELSE /\ shown' = shown \cup {"Total Investment", "Future Value", "Wealth Gained"}
                   /\ investment_values' =
                        [year \in 1..investment_years |-> monthly_investment * (year * 12)]
                   /\ future_values' =
                        [year \in 1..investment_years |->
                            YearValue(QInt(monthly_investment), monthly_rate, year * 12)]
                   /\ pc' = "tab2"
                   /\ UNCHANGED raised
    /\ UNCHANGED <<historical_data, df, fund_age_days, total_return, cagr, table_computed,
                   time_periods, returns_data, drawdown, max_drawdown, errors>>
    /\ UNCHANGED <<sipInputs, tab2Vars, goalVars, fetchVars>>

\* tab 2, lines 467-506; lines 473/475 divide by the factor or by
\* total_months, line 484 by total_investment_needed
TargetAmount ==
    /\ pc = "tab2"
    /\ LET monthly_rate == MonthlyRate(QFrac(expected_return))
           total_months == target_years * 12
       IN  IF total_months = 0
           THEN /\ Abort("ZeroDivisionError")
                /\ UNCHANGED <<tab2Vars, shown>>
           ELSE /\ required_sip' = RequiredSip(QInt(target_amount), monthly_rate, total_months)
                /\ total_investment_needed' = QMul(required_sip', QInt(total_months))
                /\ wealth_to_be_gained' = QSub(QInt(target_amount), total_investment_needed')
                /\ IF QIsZero(total_investment_needed')
                   THEN /\ Abort("ZeroDivisionError")
                        /\ UNCHANGED <<scenarios_data, shown>>
                   ELSE /\ shown' = shown \cup {"Required Monthly SIP", "Total Investment Needed",
                                                "Wealth to be Gained"}
                        /\ scenarios_data' =
                             [i \in DOMAIN return_rates |->
                                LET sip_needed == RequiredSip(QInt(target_amount),
                                                      MonthlyRate(QInt(return_rates[i])),
                                                      total_months)
                                IN  [AnnualReturn |-> return_rates[i],
                                     RequiredMonthlySIP |-> sip_needed,
                                     TotalInvestment |-> QMul(sip_needed, QInt(total_months))]]
                        /\ pc' = "done"
                        /\ UNCHANGED raised
    /\ UNCHANGED <<historical_data, df, fund_age_days, total_return, cagr, table_computed,
                   time_periods, returns_data, drawdown, max_drawdown, errors>>
    /\ UNCHANGED <<sipInputs, tab1Vars, goalVars, fetchVars>>

SipNext == SipFutureValue \/ TargetAmount

SipSpec == SipInit /\ [][SipNext]_vars

----------------------------------------------------------------------------
(* The SIP Goal Planner, lines 508-651 *)

Range(s) == {s[i] : i \in DOMAIN s}

\* the goals offered to the selections explored
SelectableGoals == {g \in DOMAIN goals : goals[g].years <= MaxGoalYears}

\* the multiselect's values: no goal twice, in the order of selection
Selections ==
    {s \in UNION {[1..n -> SelectableGoals] : n \in 0..MaxSelected} :
        \A i, j \in DOMAIN s : i # j => s[i] # s[j]}

\* the widgets of one goal: untouched, or one of them moved (the amount in
\* steps of 50000, the years from 1, the return from 6.0 in steps of 0.5)
Customs(g) ==
    {WidgetDefaults(g)}
    \cup {[WidgetDefaults(g) EXCEPT !.amount = @ + 50000 * k] : k \in 1..MaxCustomSteps}
    \cup {[WidgetDefaults(g) EXCEPT !.years = k] : k \in 1..MaxCustomSteps}
    \cup {[WidgetDefaults(g) EXCEPT !.return = HalfPercent(11 + k)] : k \in 1..MaxCustomSteps}

\* the widgets' values for a selection
CustomChoices(sel) ==
    {[g \in DOMAIN goals |-> IF g \in Range(sel) THEN f[g] ELSE WidgetDefaults(g)] :
        f \in {h \in [Range(sel) -> UNION {Customs(g) : g \in Range(sel)}] :
                  \A g \in Range(sel) : h[g] \in Customs(g)}}

GoalInit ==
    /\ pc = "goals"
    /\ \/ /\ selected_goals \in Selections
          /\ custom \in CustomChoices(selected_goals)
       \/ /\ selected_goals = DefaultSelection
          /\ custom = AllWidgetDefaults
    /\ goal_index = 0
    /\ total_monthly_sip = QInt(0)
    /\ goal_details = << >>
    /\ total_target = 0
    /\ timeline_data = << >>
    /\ SipDefaults
    /\ SipNotComputed
    /\ AcquisitionOver
    /\ historical_data = << >>
    /\ df = << >>
    /\ fund_age_days = 0
    /\ total_return = NotComputed
    /\ cagr = NotComputed
    /\ table_computed = FALSE
    /\ time_periods = << >>
    /\ returns_data = << >>
    /\ drawdown = << >>
    /\ max_drawdown = NotComputed
    /\ shown = {}
    /\ errors = << >>
    /\ raised = "none"

goal_data_predefined(goal) == WidgetDefaults(goal)

\* lines 539-576: the goal's parameters are the widgets' values
goal_data(goal) == custom[goal]

\* one pass of the loop of lines 538-595 (the formatting of lines 591-594 is
\* not represented)
GoalIteration ==
    /\ pc = "goals"
    /\ goal_index < Len(selected_goals)
    /\ LET goal == selected_goals[goal_index + 1]
           gd == goal_data(goal)
           monthly_rate == MonthlyRate(QFrac(gd.return))
           total_months == gd.years * 12
           required == RequiredSip(QInt(gd.amount), monthly_rate, total_months)
       IN  /\ total_monthly_sip' = QAdd(total_monthly_sip, required)
           /\ goal_details' = Append(goal_details,
                                     [Goal |-> goal,
                                      TargetAmount |-> gd.amount,
                                      TimePeriod |-> gd.years,
                                      ExpectedReturn |-> gd.return,
                                      MonthlySIPRequired |-> required])
    /\ goal_index' = goal_index + 1
    /\ UNCHANGED <<selected_goals, custom, total_target, timeline_data>>
    /\ UNCHANGED <<fundVars, sipInputs, tab1Vars, tab2Vars, fetchVars>>

\* sum([goals[goal]["amount"] for goal in selected_goals]), line 610
RECURSIVE PredefinedAmounts(_, _)
PredefinedAmounts(sel, i) ==
    IF i > Len(sel) THEN 0 ELSE goals[sel[i]].amount + PredefinedAmounts(sel, i + 1)

\* lines 532 and 597-637, after the loop
GoalSummary ==
    /\ pc = "goals"
    /\ goal_index = Len(selected_goals)
    /\ IF selected_goals # << >>
       THEN /\ total_target' = PredefinedAmounts(selected_goals, 1)
            /\ timeline_data' = [i \in DOMAIN selected_goals |->
                                    [Goal |-> selected_goals[i],
                                     Years |-> goals[selected_goals[i]].years,
                                     Target |-> goals[selected_goals[i]].amount]]
            /\ shown' = shown \cup {"Total Monthly SIP Required", "Total Annual Investment",
                                     "Combined Target Amount"}
       ELSE UNCHANGED <<total_target, timeline_data, shown>>
    /\ pc' = "done"
    /\ UNCHANGED <<selected_goals, custom, goal_index, total_monthly_sip, goal_details>>
    /\ UNCHANGED <<historical_data, df, fund_age_days, total_return, cagr, table_computed,
                   time_periods, returns_data, drawdown, max_drawdown, errors, raised>>
    /\ UNCHANGED <<sipInputs, tab1Vars, tab2Vars, fetchVars>>

GoalNext == GoalIteration \/ GoalSummary

GoalSpec == GoalInit /\ [][GoalNext]_vars

----------------------------------------------------------------------------
(* The Search Funds run from line 137 on, for the history the acquisition  *)
(* of lines 95-135 ended with                                              *)

FundInit ==
    /\ pc = "analyse"
    /\ historical_data \in ShortResponses \cup LongResponses
    /\ df = << >>
    /\ fund_age_days = 0
    /\ total_return = NotComputed
    /\ cagr = NotComputed
    /\ table_computed = FALSE
    /\ time_periods = << >>
    /\ returns_data = << >>
    /\ drawdown = << >>
    /\ max_drawdown = NotComputed
    /\ shown = {}
    /\ errors = << >>
    /\ raised = "none"
    /\ SipDefaults
    /\ SipNotComputed
    /\ GoalNotRun
    /\ AcquisitionOver

\* lines 313-315
ExceptHandler(e) ==
    /\ raised' = e
    /\ errors' = errors \o <<"Error fetching fund data", "Please try selecting a different fund or try again later.">>
    /\ pc' = "done"

\* lines 137-159 and 310-311
Normalize ==
    /\ pc = "analyse"
    /\ IF historical_data # << >>
       THEN /\ \E s \in sort_values(DataFrame(historical_data)) :
                 /\ df' = s
                 /\ fund_age_days' = ILoc(s, -1).date - ILoc(s, 0).date
            /\ shown' = shown \cup {"Inception Date", "Fund Age", "Data Points", "Last NAV Date"}
            /\ pc' = "metrics"
            /\ UNCHANGED errors
       ELSE /\ errors' = Append(errors, "Historical data not available for this fund")
            /\ pc' = "done"
            /\ UNCHANGED <<df, fund_age_days, shown>>
    /\ UNCHANGED <<historical_data, total_return, cagr, table_computed, time_periods,
                   returns_data, drawdown, max_drawdown, raised>>
    /\ UNCHANGED <<sipInputs, tab1Vars, tab2Vars, goalVars, fetchVars>>

\* lines 184-204; 1/fund_age_years raises ZeroDivisionError at line 191
Metrics ==
    /\ pc = "metrics"
    /\ LET inception_nav == ILoc(df, 0).nav
           current_nav == ILoc(df, -1).nav
       IN  /\ total_return' = TotalReturn(current_nav, inception_nav)
           /\ IF fund_age_days = 0
              THEN /\ ExceptHandler("ZeroDivisionError")
                   /\ UNCHANGED <<cagr, shown>>
              ELSE /\ cagr' = PowTerm(current_nav, inception_nav, 4 * fund_age_days, 1461)
                   /\ shown' = shown \cup {"Inception NAV", "Current NAV", "Total Return", "CAGR"}
                   /\ pc' = "periods"
                   /\ UNCHANGED <<errors, raised>>
    /\ UNCHANGED <<historical_data, df, fund_age_days, table_computed, time_periods,
                   returns_data, drawdown, max_drawdown>>
    /\ UNCHANGED <<sipInputs, tab1Vars, tab2Vars, goalVars, fetchVars>>

HasPeriodTable_month(len) == len > 30

\* line 207
HasPeriodTable(len) == len > 365

\* lines 207-282
Periods ==
    /\ pc = "periods"
    /\ IF HasPeriodTable(Len(df))
       THEN /\ table_computed' = TRUE
            /\ time_periods' = TimePeriods
            /\ IF PeriodsRaise(df)
               THEN /\ ExceptHandler("IndexError")
                    /\ UNCHANGED <<returns_data, shown>>
               ELSE /\ returns_data' = PeriodRows(df, 1)
                    /\ shown' = IF returns_data' # << >>
                                THEN shown \cup {"Period-wise Returns"} ELSE shown
                    /\ pc' = "risk"
                    /\ UNCHANGED <<errors, raised>>
       ELSE /\ pc' = "done"
            /\ UNCHANGED <<table_computed, time_periods, returns_data, shown, errors, raised>>
    /\ UNCHANGED <<historical_data, df, fund_age_days, total_return, cagr,
                   drawdown, max_drawdown>>
    /\ UNCHANGED <<sipInputs, tab1Vars, tab2Vars, goalVars, fetchVars>>

\* lines 285-308 (the volatility of lines 288-291 is not represented)
Risk ==
    /\ pc = "risk"
    /\ drawdown' = DrawdownSeries(df)
    /\ max_drawdown' = MaxDrawdown(drawdown')
    /\ shown' = shown \cup {"Annual Volatility", "Max Drawdown", "Risk-Return Ratio"}
    /\ pc' = "done"
    /\ UNCHANGED <<historical_data, df, fund_age_days, total_return, cagr,
                   table_computed, time_periods, returns_data, errors, raised>>
    /\ UNCHANGED <<sipInputs, tab1Vars, tab2Vars, goalVars, fetchVars>>

FundNext == Normalize \/ Metrics \/ Periods \/ Risk

FundSpec == FundInit /\ [][FundNext]_vars

----------------------------------------------------------------------------
(* The acquisition of the history, lines 95-135, followed by the analysis *)

\* line 99
max_years_back == 20

\* what the provider can deliver for a window of w years (w = 0: the window
\* from the scheme's start date): a few rows or more than a year of rows,
\* different from window to window
ProviderData(w) == {LongResponse(w + 1, "rising", TRUE), LongResponse(366 + w, "saw", TRUE)}

\* the outcomes of mf.get_scheme_historical_nav: it raises, or returns
\* nothing usable (None, no 'data', an empty list: << >>), or returns rows
ProviderOutcomes(w) ==
    {[raised |-> TRUE, data |-> << >>]}
    \cup {[raised |-> FALSE, data |-> d] : d \in {<< >>} \cup ProviderData(w)}

\* the outcomes of mf.get_scheme_details and of line 122: an exception, no
\* usable scheme info, or a start date
SchemeInfoOutcomes == {"raise", "none", "start_date"}

FetchInit ==
    /\ pc = "lookback"
    /\ years_back = 0
    /\ lookback_calls = << >>
    /\ discarded = << >>
    /\ historical_data = << >>
    /\ df = << >>
    /\ fund_age_days = 0
    /\ total_return = NotComputed
    /\ cagr = NotComputed
    /\ table_computed = FALSE
    /\ time_periods = << >>
    /\ returns_data = << >>
    /\ drawdown = << >>
    /\ max_drawdown = NotComputed
    /\ shown = {}
    /\ errors = << >>
    /\ raised = "none"
    /\ SipDefaults
    /\ SipNotComputed
    /\ GoalNotRun

CallSucceeded_never(data) == FALSE

\* line 111: historical_data and 'data' in historical_data and historical_data['data']
CallSucceeded(data) == data # << >>

\* range(max_years_back, 0, -1), line 102: the value after y, 0 after the last
NextYearsBack(y) == IF y = 0 THEN max_years_back ELSE y - 1

\* one pass of the loop of lines 102-114
LookbackCall ==
    /\ pc = "lookback"
    /\ LET window == NextYearsBack(years_back)
       IN  /\ years_back' = window
           /\ \E o \in ProviderOutcomes(window) :
                 /\ lookback_calls' = Append(lookback_calls,
                                             [years_back |-> window, data |-> o.data])
                 /\ IF o.raised
                    THEN /\ discarded' = Append(discarded, "lookback")
                         /\ UNCHANGED historical_data
                         /\ pc' = IF window = 1 THEN "fallback" ELSE "lookback"
                    ELSE /\ historical_data' = o.data
                         /\ UNCHANGED discarded
                         /\ pc' = IF CallSucceeded(o.data) \/ window = 1
                                  THEN "fallback" ELSE "lookback"
    /\ UNCHANGED <<df, fund_age_days, total_return, cagr, table_computed, time_periods,
                   returns_data, drawdown, max_drawdown, shown, errors, raised>>
    /\ UNCHANGED <<sipInputs, tab1Vars, tab2Vars, goalVars>>

\* lines 129-135: the except of line 128 discards the exception and asks for
\* 10 years; an exception of that call reaches the except of line 313
TenYearFallback ==
    /\ discarded' = Append(discarded, "scheme_details")
    /\ \E o \in ProviderOutcomes(10) :
          IF o.raised
          THEN /\ ExceptHandler("Exception")
               /\ UNCHANGED historical_data
          ELSE /\ historical_data' = o.data
               /\ pc' = "analyse"
               /\ UNCHANGED <<errors, raised>>

\* lines 117-135
SchemeDetailsFallback ==
    /\ pc = "fallback"
    /\ IF historical_data # << >>
       THEN /\ pc' = "analyse"
            /\ UNCHANGED <<historical_data, discarded, errors, raised>>
       ELSE \E info \in SchemeInfoOutcomes :
               CASE info = "none" ->
                      /\ pc' = "analyse"
                      /\ UNCHANGED <<historical_data, discarded, errors, raised>>
                 [] info = "raise" -> TenYearFallback
                 [] info = "start_date" ->
                      \E o \in ProviderOutcomes(0) :
                          IF o.raised
                          THEN TenYearFallback
                          ELSE /\ historical_data' = o.data
                               /\ pc' = "analyse"
                               /\ UNCHANGED <<discarded, errors, raised>>
    /\ UNCHANGED <<df, fund_age_days, total_return, cagr, table_computed, time_periods,
                   returns_data, drawdown, max_drawdown, shown>>
    /\ UNCHANGED <<years_back, lookback_calls>>
    /\ UNCHANGED <<sipInputs, tab1Vars, tab2Vars, goalVars>>

FetchNext == LookbackCall \/ SchemeDetailsFallback \/ FundNext

\* the loop runs on until it ends: no pass waits for anything (the provider
\* call returns or raises)
FetchSpec == FetchInit /\ [][FetchNext]_vars /\ WF_vars(LookbackCall)

----------------------------------------------------------------------------
(* Properties of the Search Funds analysis *)

\* chronological order of two 'dd-mm-YYYY' dates
DateBefore(a, b) ==
    \/ a[3] < b[3]
    \/ a[3] = b[3] /\ a[2] < b[2]
    \/ a[3] = b[3] /\ a[2] = b[2] /\ a[1] < b[1]

IsEarliest(i) == \A j \in DOMAIN historical_data :
                    ~DateBefore(historical_data[j].date, historical_data[i].date)

IsLatest(i) == \A j \in DOMAIN historical_data :
                    ~DateBefore(historical_data[i].date, historical_data[j].date)

HasNonPositiveNav == \E i \in DOMAIN historical_data : historical_data[i].nav <= 0

ReturnFigures == {"Total Return", "CAGR", "Period-wise Returns", "Max Drawdown"}

\* C1: the total return displayed is (last.nav - first.nav) / first.nav * 100
\* for an earliest-dated observation first and a latest-dated observation last
\* of the provider's response, whatever the order of delivery (stated where
\* first.nav is not zero, so that the quotient is a number).
C1_TotalReturnOfEarliestAndLatest ==
    "Total Return" \in shown =>
        /\ Len(historical_data) >= 2
        /\ \E i \in DOMAIN historical_data :
              /\ IsEarliest(i)
              /\ \E j \in DOMAIN historical_data \ {i} :
                    /\ IsLatest(j)
                    /\ LET first == historical_data[i].nav
                           last == historical_data[j].nav
                       IN  first # 0 =>
                              /\ total_return[2] # 0
                              /\ total_return[1] * first = (last - first) * 100 * total_return[2]

\* C1 witness: a response delivered newest first whose total return is displayed
C1_Witness ==
    /\ "Total Return" \in shown
    /\ Len(historical_data) >= 2
    /\ DateBefore(historical_data[2].date, historical_data[1].date)
    /\ historical_data[1].nav # historical_data[2].nav
    /\ historical_data[2].nav > 0

\* C2: when the fund age is not positive the run fails with
\* InsufficientDataError, shows no CAGR and no total return, and does not
\* divide by the zero fund age.
C2_ZeroAgeIsInsufficientData ==
    (pc = "done" /\ df # << >> /\ fund_age_days <= 0) =>
        /\ raised = "InsufficientDataError"
        /\ "CAGR" \notin shown
        /\ "Total Return" \notin shown

\* C3: an empty response or one with a NAV <= 0 is rejected: the run ends
\* with an error and no return, CAGR or risk figure is displayed for it.
C3_NonPositiveNavRejected ==
    (historical_data = << >> \/ HasNonPositiveNav) =>
        /\ shown \cap ReturnFigures = {}
        /\ pc = "done" => errors # << >>

\* C4: the series the performance computation works on is strictly increasing
\* by date, no two rows sharing a date.
C4_SeriesStrictlyIncreasing ==
    pc # "analyse" => StrictlyIncreasingByDate(df)

\* C5: the catalog is strictly increasing in days and is 30, 90, 180 followed
\* by 365*k for every k in 1..40.
C5_CatalogHasEveryYear ==
    table_computed =>
        /\ \A i \in 1..(Len(time_periods) - 1) : time_periods[i].days < time_periods[i + 1].days
        /\ Len(time_periods) = 43
        /\ time_periods[1].days = 30 /\ time_periods[2].days = 90 /\ time_periods[3].days = 180
        /\ \A k \in 1..40 : time_periods[3 + k].days = 365 * k

DaysOf(name) == (CHOOSE i \in DOMAIN TimePeriods : TimePeriods[i].name = name)

ReportedPeriods == {returns_data[r].Period : r \in DOMAIN returns_data}

TableDone == pc \in {"risk", "done"} /\ table_computed /\ raised = "none"

\* C6: the period table is computed only for more than 365 rows; a catalog
\* period has a row iff its days < len(df); the old NAV of a row is the row
\* of df at index len - days - 1, a valid index, and the absolute return is
\* (current - old) / old * 100.
C6_PeriodTable ==
    /\ table_computed => Len(df) > 365
    /\ raised # "IndexError"
    /\ TableDone =>
        /\ \A i \in DOMAIN TimePeriods :
              TimePeriods[i].name \in ReportedPeriods <=> TimePeriods[i].days < Len(df)
        /\ \A r \in DOMAIN returns_data :
              LET days == TimePeriods[DaysOf(returns_data[r].Period)].days
                  idx == Len(df) - days - 1
                  abs == returns_data[r].AbsoluteReturn
              IN  /\ 0 <= idx /\ idx < Len(df)
                  /\ LET old == df[idx + 1].nav
                         current == df[Len(df)].nav
                     IN  old # 0 => /\ abs[2] # 0
                                    /\ abs[1] * old = (current - old) * 100 * abs[2]

\* C6 witness: a table whose oldest reported period reaches back to the first
\* row of df, with a nonzero return, and with later catalog periods left out
C6_Witness ==
    /\ TableDone
    /\ Len(df) = 731
    /\ "2 Years" \in ReportedPeriods
    /\ "3 Years" \notin ReportedPeriods
    /\ \E r \in DOMAIN returns_data :
          returns_data[r].Period = "2 Years" /\ returns_data[r].AbsoluteReturn[1] # 0

AllNavsPositive == \A i \in DOMAIN df : df[i].nav > 0

NonDecreasingNavs == \A i \in 1..(Len(df) - 1) : df[i].nav <= df[i + 1].nav

\* C8: for positive NAVs every drawdown is <= 0 and is taken against the
\* running maximum of nav[0..i]; the max drawdown is the least drawdown times
\* 100, so it is <= 0, and it is 0 for a non-decreasing series.
C8_DrawdownNotPositive ==
    (max_drawdown # NotComputed /\ AllNavsPositive) =>
        /\ Len(drawdown) = Len(df)
        /\ \A i \in DOMAIN drawdown :
              LET top == drawdown[i][2]
              IN  /\ drawdown[i][1] = df[i].nav - top
                  /\ drawdown[i][1] <= 0
                  /\ IF i = 1 THEN top = df[1].nav
                     ELSE /\ top >= drawdown[i - 1][2]
                          /\ top \in {drawdown[i - 1][2], df[i].nav}
        /\ max_drawdown[2] > 0
        /\ max_drawdown[1] <= 0
        /\ \A i \in DOMAIN drawdown :
              max_drawdown[1] * drawdown[i][2] <= 100 * drawdown[i][1] * max_drawdown[2]
        /\ \E i \in DOMAIN drawdown :
              max_drawdown[1] * drawdown[i][2] = 100 * drawdown[i][1] * max_drawdown[2]
        /\ NonDecreasingNavs => max_drawdown[1] = 0

\* C8 witness: a positive series that fell below an earlier peak
C8_Witness ==
    /\ max_drawdown # NotComputed
    /\ AllNavsPositive
    /\ max_drawdown[1] < 0
    /\ \E i \in DOMAIN drawdown : drawdown[i][1] = 0 /\ i > 1

\* C17: when the period table is computed, its rows are the first rows of
\* the catalog, in the catalog's order: at least 1 Month, 3 Months, 6 Months
\* and 1 Year, and with a period every catalog period of fewer days.
C17_RowsArePrefixOfCatalog ==
    TableDone =>
        /\ Len(returns_data) >= 4
        /\ Len(returns_data) <= Len(time_periods)
        /\ \A r \in DOMAIN returns_data : returns_data[r].Period = time_periods[r].name
        /\ {"1 Month", "3 Months", "6 Months", "1 Year"} \subseteq ReportedPeriods
        /\ \A i, j \in DOMAIN time_periods :
              (time_periods[j].name \in ReportedPeriods
                  /\ time_periods[i].days < time_periods[j].days)
              => time_periods[i].name \in ReportedPeriods

\* C17 witness: a table that goes beyond 1 Year and stops before the end
\* of the catalog
C17_Witness ==
    /\ TableDone
    /\ Len(returns_data) > 4
    /\ Len(returns_data) < Len(time_periods)
    /\ returns_data[Len(returns_data)].Period = time_periods[Len(returns_data)].name

----------------------------------------------------------------------------
(* Properties of the SIP Calculator *)

\* the balance a month later when the amount is paid in at the start of the
\* month and the balance earns r over the month
MonthLater(balance, amount, r) == QMul(QAdd(balance, amount), QAdd(QInt(1), r))

\* the balances at the end of the months lo..hi, month by month from the
\* balance before month lo (the months are taken in two runs to keep the
\* recursion shallow)
RECURSIVE Balances(_, _, _, _, _)
Balances(amount, r, lo, hi, before) ==
    IF lo > hi THEN << >>
    ELSE IF lo = hi THEN <<MonthLater(before, amount, r)>>
    ELSE LET mid == (lo + hi) \div 2
             left == Balances(amount, r, lo, mid, before)
         IN  left \o Balances(amount, r, mid + 1, hi, left[Len(left)])

\* the value of an annuity due of the given number of monthly payments
AnnuityDue(amount, r, months) ==
    IF months = 0 THEN QInt(0) ELSE Balances(amount, r, 1, months, QInt(0))[months]

\* annualReturnPct / 1200 for the slider value num / den
RateOf(f) == <<BigFromNat(f[1]), BigFromNat(f[2] * 1200)>>

\* C9: for amount > 0, years >= 1 and annual return >= 0, with
\* r = annualReturnPct / 1200 and n = years * 12, the future value is the
\* annuity-due value of n monthly payments when r > 0 and amount * n when
\* r = 0, and the total invested is amount * n; for 5000 a month at 12% over
\* 10 years that is 600000 invested and 1,161,695 within 1.
C9_FutureValueIsAnnuityDue ==
    (future_value # NotComputed /\ monthly_investment > 0 /\ investment_years >= 1) =>
        LET n == investment_years * 12
        IN  /\ total_investment = monthly_investment * n
            /\ IF annual_return[1] > 0
               THEN QEq(future_value,
                        AnnuityDue(QInt(monthly_investment), RateOf(annual_return), n))
               ELSE future_value[2] # BigZero
                    /\ QEq(future_value, QInt(monthly_investment * n))
            /\ (monthly_investment = 5000 /\ annual_return = <<24, 2>> /\ investment_years = 10) =>
                  /\ total_investment = 600000
                  /\ QLess(QInt(1161694), future_value)
                  /\ QLess(future_value, QInt(1161696))

\* C9 witness: a projection at a positive rate that gained wealth
C9_Witness ==
    /\ future_value # NotComputed
    /\ annual_return[1] > 0
    /\ investment_years >= 2
    /\ QLess(QInt(total_investment), future_value)

\* C10: for target > 0, years >= 1 and annual return >= 0, the future value
\* of paying the required monthly SIP for the same years at the same return
\* is the target, both when r > 0 and when r = 0.
C10_RequiredSipRoundTrip ==
    (required_sip # NotComputed /\ target_amount > 0 /\ target_years >= 1) =>
        /\ required_sip[2] # BigZero
        /\ QEq(FutureValue(required_sip, MonthlyRate(QFrac(expected_return)), target_years * 12),
               QInt(target_amount))

\* C10 witness: a required SIP at a positive rate, smaller than target / n
C10_Witness ==
    /\ required_sip # NotComputed
    /\ expected_return[1] > 0
    /\ QLess(QMul(required_sip, QInt(target_years * 12)), QInt(target_amount))

\* C11: the year-wise breakdown has one entry per year 1..years, in year
\* order; the entry of year y is the future-value formula at n = 12 * y (at
\* a positive rate and at rate 0) with amount * 12 * y invested, so the last
\* entry is the headline future value and the headline total investment.
C11_YearByYearProjection ==
    pc # "tab1" =>
        LET r == MonthlyRate(QFrac(annual_return))
        IN  /\ DOMAIN future_values = 1..investment_years
            /\ DOMAIN investment_values = 1..investment_years
            /\ \A y \in 1..investment_years :
                  /\ QEq(future_values[y], FutureValue(QInt(monthly_investment), r, 12 * y))
                  /\ investment_values[y] = monthly_investment * 12 * y
            /\ QEq(future_values[investment_years], future_value)
            /\ investment_values[investment_years] = total_investment

\* C11 witness: a breakdown of several years at a positive rate, growing
\* from year to year
C11_Witness ==
    /\ pc # "tab1"
    /\ annual_return[1] > 0
    /\ Len(future_values) >= 2
    /\ QLess(future_values[1], future_values[2])

----------------------------------------------------------------------------
(* Properties of the SIP Goal Planner *)

\* the required monthly SIP of a goal from its own target, years and return
OwnSip(g) ==
    RequiredSip(QInt(custom[g].amount), MonthlyRate(QFrac(custom[g].return)),
                custom[g].years * 12)

\* the sum of OwnSip over the selected goals among goal_keys[i..], in the
\* order of the goals' list, whatever the order of selection
RECURSIVE SipSum(_)
SipSum(i) ==
    IF i > Len(goal_keys) THEN QInt(0)
    ELSE LET rest == SipSum(i + 1)
         IN  IF goal_keys[i] \in Range(selected_goals)
             THEN QAdd(OwnSip(goal_keys[i]), rest)
             ELSE rest

\* C13: each row of the breakdown holds the required SIP of its goal's own
\* (target, years, return) as customized, whatever the other goals and the
\* order of selection, and the total monthly SIP is the sum of these over
\* the selected goals.
C13_TotalIsSumOfIndependentSips ==
    pc \in {"goals", "done"} =>
        /\ Len(goal_details) = goal_index
        /\ \A i \in 1..goal_index :
              /\ goal_details[i].Goal = selected_goals[i]
              /\ QEq(goal_details[i].MonthlySIPRequired, OwnSip(selected_goals[i]))
        /\ pc = "done" => QEq(total_monthly_sip, SipSum(1))

\* C13 witness: two goals planned, one of them customized, the total above
\* each goal's own SIP
C13_Witness ==
    /\ pc = "done"
    /\ Len(goal_details) = 2
    /\ \E g \in Range(selected_goals) : custom[g] # WidgetDefaults(g)
    /\ \A i \in 1..2 : QLess(goal_details[i].MonthlySIPRequired, total_monthly_sip)

RECURSIVE BreakdownTargets(_)
BreakdownTargets(i) ==
    IF i > Len(goal_details) THEN 0 ELSE goal_details[i].TargetAmount + BreakdownTargets(i + 1)

\* C14: the combined target amount is the sum of the target amounts of the
\* breakdown's rows, the targets the required SIPs were computed from, also
\* when a target was customized.
C14_CombinedTargetIsSumOfRows ==
    (pc = "done" /\ selected_goals # << >>) => total_target = BreakdownTargets(1)

----------------------------------------------------------------------------
(* Properties of the acquisition of the history *)

\* C15: no exception raised while the history is obtained or analysed is
\* caught and discarded with the run going on and no error shown for it.
C15_NoExceptionDiscarded == discarded = << >>

\* the lookback loop is over
LoopOver == pc # "lookback"

\* the calls of the loop so far: at most 20, the windows 20, 19, .. years,
\* none after a call that returned rows; once the loop is over it ended on
\* such a call or after the window of 1 year, and the rows of such a call
\* are the history used
LoopSafety ==
    LET n == Len(lookback_calls)
    IN  /\ n <= 20
        /\ \A i \in 1..n : lookback_calls[i].years_back = 21 - i
        /\ \A i \in 1..(n - 1) : lookback_calls[i].data = << >>
        /\ LoopOver =>
              /\ n >= 1
              /\ lookback_calls[n].data # << >> \/ n = 20
              /\ lookback_calls[n].data # << >> => historical_data = lookback_calls[n].data

\* C16: the lookback loop ends, after at most 20 provider calls; the windows
\* requested are 20, 19, .. years, each narrower than the one before; the
\* loop stops at the first call that returns rows without raising, so the
\* history used is that of the widest window the provider succeeds for and
\* no window is requested after it.
C16_LookbackLoop == []LoopSafety /\ <>LoopOver

\* C16 witness: the provider failed for the widest windows, in both ways,
\* and succeeded for a narrower one, whose rows were analysed
C16_Witness ==
    /\ pc = "done"
    /\ Len(lookback_calls) >= 3
    /\ discarded # << >>
    /\ Len(discarded) < Len(lookback_calls) - 1
    /\ lookback_calls[Len(lookback_calls)].data # << >>
    /\ df # << >>

====
